---- MODULE Spec2Model ----
(***************************************************************************)
(* The module-interface build cache of lib/Frontend/                       *)
(* ParseableInterfaceSupport.cpp: cache-slot naming, the up-to-date check   *)
(* of a cached .swiftmodule against its recorded dependencies, dependency  *)
(* collection with one-level flattening of nested cached modules, the      *)
(* crash-isolated rebuild from a .swiftinterface, and the loader policy.   *)
(***************************************************************************)
EXTENDS Integers, Sequences, FiniteSets, TLC

(***************************************************************************)
(* Bounds of the model.                                                    *)
(***************************************************************************)
\* number of steps (file changes, load requests, restarts) in one behaviour
MaxSteps == 2
\* plain files hold one of the texts 0..MaxContent
MaxContent == 2
\* the content hash is the text's checksum modulo HashMod (so texts collide)
HashMod == 2

(***************************************************************************)
(* Paths.  A path is (directory, file stem, extension); the directory and  *)
(* the stem are sequences of characters so that StringRef::startswith and  *)
(* path::append are computed, not assumed.                                 *)
(***************************************************************************)
Modules == {"A", "B"}

\* the loader's CacheDir (ParseableInterfaceModuleLoader::CacheDir)
CacheDir == <<"c">>
\* the directory the interfaces, their adjacent modules and the headers are in
DirName == <<"s">>

SwiftModuleExt == "swiftmodule"
SwiftInterfaceExt == "swiftinterface"

MkPath(dir, stem, ext) == [dir |-> dir, stem |-> stem, ext |-> ext]

\* the characters of a path, as StringRef sees them
PathStr(p) == p.dir \o <<"/">> \o p.stem \o <<".", p.ext>>

startswith(s, prefix) ==
    /\ Len(prefix) <= Len(s)
    /\ \A i \in 1..Len(prefix) : s[i] = prefix[i]

\* llvm::hash_value / hash_combine over the key components, reduced to a
\* small residue, and rendered by APInt::toString(36)
Base36Digits == <<"0", "1", "2", "3", "4", "5", "6", "7", "8", "9", "a", "b">>
toString36(n) == <<Base36Digits[(n % 12) + 1]>>
ModuleCode(m) == IF m = "A" THEN 1 ELSE 2
hash_combine(h, v) == (h * 7 + v) % 12
\* the hash input of a path: its directory and stem characters
PathCode(p) == Len(p.dir) + ModuleCode(p.stem[1])
getCacheHash(vers, InPath, pch) ==
    toString36(hash_combine(hash_combine(vers, PathCode(InPath)), pch))

\* swift::version::getSwiftFullVersion and getPCHHashComponents of the host
ToolsVersion == 5
PCHHashComponents == 3

ModPathOf(m) == MkPath(DirName, <<m>>, SwiftModuleExt)
InPathOf(m) == MkPath(DirName, <<m>>, SwiftInterfaceExt)
\* an output path that leaves the module name out of the file name
computeCachedOutputPathIn_NoName(Ctx, SubInvocation, InPath) ==
    MkPath(SubInvocation.ClangModuleCachePath,
           <<"-">> \o getCacheHash(Ctx.vers, InPath, SubInvocation.PCHHashComponents),
           SwiftModuleExt)

\* computeCachedOutputPath for any host context and sub-invocation
computeCachedOutputPathIn(Ctx, SubInvocation, InPath) ==
    MkPath(SubInvocation.ClangModuleCachePath,
           <<SubInvocation.ModuleName, "-">>
              \o getCacheHash(Ctx.vers, InPath, SubInvocation.PCHHashComponents),
           SwiftModuleExt)

\* the host of this model: one toolchain, one cache directory
computeCachedOutputPath(m, InPath) ==
    computeCachedOutputPathIn([vers |-> ToolsVersion],
        [ClangModuleCachePath |-> CacheDir, ModuleName |-> m,
         PCHHashComponents |-> PCHHashComponents], InPath)
OutPathOf(m) == computeCachedOutputPath(m, InPathOf(m))

HeaderX == MkPath(DirName, <<"x">>, "h")
Headers == {HeaderX}

AllPaths ==
    Headers \cup {InPathOf(m) : m \in Modules} \cup {ModPathOf(m) : m \in Modules}
            \cup {OutPathOf(m) : m \in Modules}

(***************************************************************************)
(* File contents.                                                          *)
(***************************************************************************)
NoFile == [kind |-> "none"]
\* a file that exists but cannot be read (an error other than ENOENT)
Unreadable == [kind |-> "unreadable"]

\* a text of `len` bytes whose bytes sum to `sum`; an interface text also
\* carries what its two header lines and its import declarations say
Text(len, sum, hasVers, major, minor, hasFlags, argsOK, name, imports) ==
    [kind |-> "text", len |-> len, sum |-> sum, hasVers |-> hasVers,
     major |-> major, minor |-> minor, hasFlags |-> hasFlags,
     argsOK |-> argsOK, name |-> name, imports |-> imports]

PlainText(n) == Text(1, n, FALSE, 0, 0, FALSE, FALSE, "", <<>>)

\* a serialized module: validation status, embedded name, dependency ledger
AST(status, name, deps) ==
    [kind |-> "ast", status |-> status, name |-> name, deps |-> deps]
MalformedAST == AST("Malformed", "", <<>>)

FileDependency(size, hash, path) == [Size |-> size, Hash |-> hash, Path |-> path]

RECURSIVE SumDeps(_)
SumDeps(deps) ==
    IF deps = <<>> THEN 0
    ELSE deps[1].Size + deps[1].Hash + Len(deps[1].Path.stem) + SumDeps(Tail(deps))

getBufferSize(buf) ==
    IF buf.kind = "text" THEN buf.len
    ELSE IF buf.status = "Valid" THEN 20 + Len(buf.deps) ELSE 19

Checksum(buf) ==
    IF buf.kind = "text" THEN buf.sum
    ELSE IF buf.status = "Valid" THEN ModuleCode(buf.name) + SumDeps(buf.deps) ELSE 0

xxHash64(buf) == Checksum(buf) % HashMod

(***************************************************************************)
(* The virtual file system: a function from paths to contents.             *)
(***************************************************************************)
ReadFile(FS, p) == IF p \in DOMAIN FS THEN FS[p] ELSE NoFile
\* a loader that does not look for the interface first
exists_Always(FS, p) == TRUE
exists(FS, p) == ReadFile(FS, p) # NoFile
\* FS.getBufferForFile succeeded
IsBuffer(buf) == buf.kind \in {"text", "ast"}

\* serialization::validateSerializedAST: status, name and dependency list
validateSerializedAST(buf) ==
    IF buf.kind = "ast" /\ buf.status = "Valid"
    THEN [status |-> "Valid", name |-> buf.name, deps |-> buf.deps]
    ELSE [status |-> "Malformed", name |-> "", deps |-> <<>>]

\* getBufferOfDependency: the buffer, or a diagnosed error
getBufferOfDependency(FS, DepPath) ==
    LET DepBuf == ReadFile(FS, DepPath)
    IN  [ok |-> IsBuffer(DepBuf), buf |-> DepBuf, diagnosed |-> ~IsBuffer(DepBuf)]

(***************************************************************************)
(* swiftModuleIsUpToDate.  result is "true", "false", or "abort" when the  *)
(* name assertion fails in a build that keeps assertions; tracked is what  *)
(* the outer tracker was told, in order; diagnosed says whether an error   *)
(* was diagnosed.                                                          *)
(***************************************************************************)
\* a comparison that never accepts an entry for a compiled module
DepOutOfDate_NeverModules(FS, In) ==
    LET DepBuf == getBufferOfDependency(FS, In.Path)
    IN  \/ ~DepBuf.ok
        \/ getBufferSize(DepBuf.buf) # In.Size
        \/ xxHash64(DepBuf.buf) # In.Hash
        \/ In.Path.ext = SwiftModuleExt

\* the comparison without its hash half
DepOutOfDate_SizeOnly(FS, In) ==
    LET DepBuf == getBufferOfDependency(FS, In.Path)
    IN  \/ ~DepBuf.ok
        \/ getBufferSize(DepBuf.buf) # In.Size

\* the comparison with its size test inverted
DepOutOfDate_SizeInverted(FS, In) ==
    LET DepBuf == getBufferOfDependency(FS, In.Path)
    IN  \/ ~DepBuf.ok
        \/ getBufferSize(DepBuf.buf) = In.Size
        \/ xxHash64(DepBuf.buf) # In.Hash

DepOutOfDate(FS, In) ==
    LET DepBuf == getBufferOfDependency(FS, In.Path)
    IN  \/ ~DepBuf.ok
        \/ getBufferSize(DepBuf.buf) # In.Size
        \/ xxHash64(DepBuf.buf) # In.Hash

\* the loop leaving after its first iteration
FirstOutOfDate_OnlyFirst(FS, AllDeps) ==
    IF Len(AllDeps) > 0 /\ DepOutOfDate(FS, AllDeps[1]) THEN 1 ELSE 0

\* index of the first dependency the loop returns false at, 0 if none
FirstOutOfDate(FS, AllDeps) ==
    IF \E i \in 1..Len(AllDeps) : DepOutOfDate(FS, AllDeps[i])
    THEN CHOOSE i \in 1..Len(AllDeps) :
            /\ DepOutOfDate(FS, AllDeps[i])
            /\ \A j \in 1..(i - 1) : ~DepOutOfDate(FS, AllDeps[j])
    ELSE 0

\* a validator that tells the tracker of an entry only once it has passed
swiftModuleIsUpToDate_TracksAfterCheck(FS, ModuleName, OutPath, asserts) ==
    LET OutBuf == ReadFile(FS, OutPath)
        VI == validateSerializedAST(OutBuf)
        k == FirstOutOfDate(FS, VI.deps)
        passed == IF k = 0 THEN Len(VI.deps) ELSE k - 1
    IN  IF ~IsBuffer(OutBuf) \/ VI.status # "Valid"
        THEN [result |-> "false", tracked |-> <<>>, diagnosed |-> FALSE]
        ELSE IF asserts /\ VI.name # ModuleName
        THEN [result |-> "abort", tracked |-> <<>>, diagnosed |-> FALSE]
        ELSE [result |-> IF k = 0 THEN "true" ELSE "false",
              tracked |-> [i \in 1..passed |-> VI.deps[i].Path],
              diagnosed |-> k # 0 /\ ~getBufferOfDependency(FS, VI.deps[k].Path).ok]

\* a validator that diagnoses a candidate it cannot read or deserialize
swiftModuleIsUpToDate_DiagnosesCorrupt(FS, ModuleName, OutPath, asserts) ==
    LET OutBuf == ReadFile(FS, OutPath)
        VI == validateSerializedAST(OutBuf)
        k == FirstOutOfDate(FS, VI.deps)
        checked == IF k = 0 THEN Len(VI.deps) ELSE k
    IN  IF ~IsBuffer(OutBuf) \/ VI.status # "Valid"
        THEN [result |-> "false", tracked |-> <<>>, diagnosed |-> TRUE]
        ELSE IF asserts /\ VI.name # ModuleName
        THEN [result |-> "abort", tracked |-> <<>>, diagnosed |-> FALSE]
        ELSE [result |-> IF k = 0 THEN "true" ELSE "false",
              tracked |-> [i \in 1..checked |-> VI.deps[i].Path],
              diagnosed |-> k # 0 /\ ~getBufferOfDependency(FS, VI.deps[k].Path).ok]

swiftModuleIsUpToDate(FS, ModuleName, OutPath, asserts) ==
    LET OutBuf == ReadFile(FS, OutPath)
        VI == validateSerializedAST(OutBuf)
        k == FirstOutOfDate(FS, VI.deps)
        checked == IF k = 0 THEN Len(VI.deps) ELSE k
    IN  IF ~IsBuffer(OutBuf)
        THEN [result |-> "false", tracked |-> <<>>, diagnosed |-> FALSE]
        ELSE IF VI.status # "Valid"
        THEN [result |-> "false", tracked |-> <<>>, diagnosed |-> FALSE]
        ELSE IF asserts /\ VI.name # ModuleName
        THEN [result |-> "abort", tracked |-> <<>>, diagnosed |-> FALSE]
        ELSE [result |-> IF k = 0 THEN "true" ELSE "false",
              tracked |-> [i \in 1..checked |-> VI.deps[i].Path],
              diagnosed |-> k # 0 /\ ~getBufferOfDependency(FS, VI.deps[k].Path).ok]

(***************************************************************************)
(* collectDepsForSerialization.                                            *)
(***************************************************************************)
\* an inner loop that copies nothing
SpliceSubDeps_Nothing(SubDeps, acc) == acc

\* the inner loop over SubDeps: acc is [names, Deps, tracked]
RECURSIVE SpliceSubDeps(_, _)
SpliceSubDeps(SubDeps, acc) ==
    IF SubDeps = <<>> THEN acc
    ELSE LET SubDep == Head(SubDeps)
         IN  IF SubDep.Path \notin acc.names
             THEN SpliceSubDeps(Tail(SubDeps),
                      [names |-> acc.names \cup {SubDep.Path},
                       Deps |-> Append(acc.Deps, SubDep),
                       tracked |-> Append(acc.tracked, SubDep.Path)])
             ELSE SpliceSubDeps(Tail(SubDeps), acc)

IsCachedSwiftModule(DepName, ModuleCachePath) ==
    /\ DepName.ext = SwiftModuleExt
    /\ startswith(PathStr(DepName), ModuleCachePath)

\* the outer loop over InitialDepNames
RECURSIVE CollectLoop(_, _, _, _)
CollectLoop(FS, names, ModuleCachePath, acc) ==
    IF names = <<>>
    THEN [error |-> FALSE, Deps |-> acc.Deps, tracked |-> acc.tracked,
          diagnosed |-> FALSE]
    ELSE LET DepName == Head(names)
             tracked1 == IF DepName \notin acc.names
                         THEN Append(acc.tracked, DepName) ELSE acc.tracked
             DepBuf == getBufferOfDependency(FS, DepName)
             acc1 == [names |-> acc.names \cup {DepName},
                      Deps |-> Append(acc.Deps,
                                  FileDependency(getBufferSize(DepBuf.buf),
                                                 xxHash64(DepBuf.buf), DepName)),
                      tracked |-> tracked1]
             VI == validateSerializedAST(DepBuf.buf)
         IN  IF ~DepBuf.ok
             THEN [error |-> TRUE, Deps |-> acc.Deps, tracked |-> tracked1,
                   diagnosed |-> TRUE]
             ELSE IF ModuleCachePath = <<>>
             THEN CollectLoop(FS, Tail(names), ModuleCachePath, acc1)
             ELSE IF IsCachedSwiftModule(DepName, ModuleCachePath)
             THEN IF VI.status # "Valid"
                  THEN [error |-> TRUE, Deps |-> acc1.Deps, tracked |-> tracked1,
                        diagnosed |-> TRUE]
                  ELSE CollectLoop(FS, Tail(names), ModuleCachePath,
                                   SpliceSubDeps(VI.deps, acc1))
             ELSE CollectLoop(FS, Tail(names), ModuleCachePath, acc1)

\* a collector that keeps of the tracker's list only the modules and copies
\* no ledger out of them
IsModulePath(p) == p.ext = SwiftModuleExt
collectDepsForSerialization_ModulesUnflattened(FS, DTDeps, InPath, ModuleCachePath) ==
    CollectLoop(FS, Append(SelectSeq(DTDeps, IsModulePath), InPath), <<>>,
                [names |-> {}, Deps |-> <<>>, tracked |-> <<>>])

\* a collector that puts the input before the tracker's dependencies
collectDepsForSerialization_InputFirst(FS, DTDeps, InPath, ModuleCachePath) ==
    CollectLoop(FS, <<InPath>> \o DTDeps, ModuleCachePath,
                [names |-> {}, Deps |-> <<>>, tracked |-> <<>>])

collectDepsForSerialization(FS, DTDeps, InPath, ModuleCachePath) ==
    CollectLoop(FS, Append(DTDeps, InPath), ModuleCachePath,
                [names |-> {}, Deps |-> <<>>, tracked |-> <<>>])

(***************************************************************************)
(* The rebuild and the loader.  A request carries cfg = [mode, asserts,    *)
(* faults]: the loader's LoadMode, whether the build keeps assertions, and *)
(* for each module what its compile step does this time.                   *)
(***************************************************************************)
\* static swift::version::Version InterfaceFormatVersion({1, 0})
InterfaceFormatMajor == 1

Import(kind, path, name) == [kind |-> kind, path |-> path, name |-> name]
ImportHeader(p) == Import("header", p, "")
ImportModule(m) == Import("module", MkPath(<<>>, <<m>>, ""), m)

\* what the compile step of one module does, apart from what the files say
Faults == {"none", "setup", "sema", "silgen", "silerr",
           "crashExtract", "crashSema", "crashSIL", "crashSerialize", "crashAfterSerialize"}

\* DependencyTracker::addDependency keeps the first report of a path
addDependency(deps, p) ==
    IF \E i \in 1..Len(deps) : deps[i] = p THEN deps ELSE Append(deps, p)

RECURSIVE addDependencies(_, _)
addDependencies(deps, ps) ==
    IF ps = <<>> THEN deps
    ELSE addDependencies(addDependency(deps, Head(ps)), Tail(ps))

\* serialize(Mod, SerializationOpts, SILMod): the module file at OutputPath
serialize(FS, OutputPath, name, Dependencies) ==
    [FS EXCEPT ![OutputPath] = AST("Valid", name, Dependencies)]

\* a write that the crash cut short
serializeInterrupted(FS, OutputPath) ==
    [FS EXCEPT ![OutputPath] = MalformedAST]

\* extractSwiftInterfaceVersionAndArgs: failed is the function's `true`
extractSwiftInterfaceVersionAndArgs(FS, SwiftInterfacePathIn) ==
    LET SB == ReadFile(FS, SwiftInterfacePathIn)
        None(why) == [failed |-> TRUE, why |-> why, major |-> 0, minor |-> 0,
                      argsOK |-> FALSE, name |-> "", imports |-> <<>>]
    IN  IF ~IsBuffer(SB) THEN None("error_open_input_file")
        ELSE IF ~(SB.kind = "text" /\ SB.hasVers)
        THEN None("error_extracting_version")
        ELSE IF ~SB.hasFlags THEN None("error_extracting_flags")
        ELSE [failed |-> FALSE, why |-> "", major |-> SB.major, minor |-> SB.minor,
              argsOK |-> SB.argsOK, name |-> SB.name, imports |-> SB.imports]

InterfaceFormatMinor == 0

\* a comparison of the whole version
UnsupportedVersion_Exact(major, minor) ==
    major # InterfaceFormatMajor \/ minor # InterfaceFormatMinor

\* Vers.asMajorVersion() != InterfaceFormatVersion.asMajorVersion()
UnsupportedVersion(major, minor) == major # InterfaceFormatMajor

\* the module name SubInvocation holds after parseArgs: -module-name, if given
ResolvedModuleName(declared, ExpectedModuleName) ==
    IF declared = "" THEN ExpectedModuleName ELSE declared

\* a rebuild that does not compare the names
NameMismatch_Never(resolved, ExpectedModuleName) == FALSE

\* SubInvocation.getModuleName() != ExpectedModuleName
NameMismatch(resolved, ExpectedModuleName) == resolved # ExpectedModuleName

\* a return that forgets the crash recovery context's result
BuildReturn_IgnoresCrash(RunSuccess, SubError) == SubError

\* return !RunSuccess || SubError
BuildReturn(RunSuccess, SubError) == ~RunSuccess \/ SubError

\* a test that takes only a readable, valid module
serializedASTLooksValidOrCannotBeRead_OnlyValid(FS, ModPath) ==
    /\ IsBuffer(ReadFile(FS, ModPath))
    /\ validateSerializedAST(ReadFile(FS, ModPath)).status = "Valid"

serializedASTLooksValidOrCannotBeRead(FS, ModPath) ==
    LET ModBuf == ReadFile(FS, ModPath)
    IN  IF ~IsBuffer(ModBuf) THEN ModBuf # NoFile
        ELSE validateSerializedAST(ModBuf).status = "Valid"

\* a ledger entry agrees with the file now at its path
EntryMatches(FS, In) ==
    /\ ReadFile(FS, In.Path).kind \in {"text", "ast"}
    /\ getBufferSize(ReadFile(FS, In.Path)) = In.Size
    /\ xxHash64(ReadFile(FS, In.Path)) = In.Hash

\* the artifact at OutPath is valid and every ledger entry matches the files
ServedFresh(FS, OutPath) ==
    /\ ReadFile(FS, OutPath).kind = "ast"
    /\ ReadFile(FS, OutPath).status = "Valid"
    /\ \A i \in 1..Len(ReadFile(FS, OutPath).deps) :
           EntryMatches(FS, ReadFile(FS, OutPath).deps[i])

\* the paths a ledger holds an entry for whose file is readable and no longer
\* has the recorded fingerprint
StalePaths(FS, OutPath) ==
    IF ReadFile(FS, OutPath).kind = "ast" /\ ReadFile(FS, OutPath).status = "Valid"
    THEN {ReadFile(FS, OutPath).deps[i].Path : i \in
            {j \in 1..Len(ReadFile(FS, OutPath).deps) :
                /\ ReadFile(FS, ReadFile(FS, OutPath).deps[j].Path).kind
                       \in {"text", "ast"}
                /\ ~EntryMatches(FS, ReadFile(FS, OutPath).deps[j])}}
    ELSE {}

\* the outcome of one rebuild.  stage is the last step entered.
Stages == <<"ExtractHeader", "CheckVersion", "ParseArguments", "CheckIdentity",
            "Compile", "CollectDeps", "SILProcessing", "Serialize", "Done">>
StageNo(stage) == CHOOSE i \in 1..Len(Stages) : Stages[i] = stage

BuildOutcome(RunSuccess, SubError, why, stage, FS, hadAnyError, tracked, Deps, serialized, servedStale) ==
    [failed |-> BuildReturn(RunSuccess, SubError), crashed |-> ~RunSuccess,
     why |-> why, stage |-> stage, FS |-> FS, hadAnyError |-> hadAnyError,
     tracked |-> tracked, Deps |-> Deps, serialized |-> serialized,
     servedStale |-> servedStale]

RECURSIVE openModuleFiles(_, _, _, _)

\* the next loader of the chain takes the module adjacent to the interface
AdjacentLoads(FS, m) ==
    /\ IsBuffer(ReadFile(FS, ModPathOf(m)))
    /\ validateSerializedAST(ReadFile(FS, ModPathOf(m))).status = "Valid"
    /\ validateSerializedAST(ReadFile(FS, ModPathOf(m))).name = m

\* the sub-instance after it imported module m with result r of its loader
AfterImport(st, m, r) ==
    IF r.outcome = "abort"
    THEN [st EXCEPT !.FS = r.FS, !.crashed = TRUE]
    ELSE [FS |-> r.FS, crashed |-> st.crashed,
          servedStale |-> st.servedStale \/ r.servedStale,
          hadError |->
             \/ r.hadAnyError
             \/ r.outcome = "invalid_argument"
             \/ r.outcome = "loaded" /\
                   validateSerializedAST(ReadFile(r.FS, OutPathOf(m))).name # m
             \/ r.outcome \in {"no_such_file", "not_supported"} /\ ~AdjacentLoads(r.FS, m),
          deps |->
             IF r.outcome = "loaded"
             THEN addDependency(addDependencies(st.deps, r.tracked), OutPathOf(m))
             ELSE IF r.outcome \in {"no_such_file", "not_supported"}
                     /\ AdjacentLoads(r.FS, m)
             THEN addDependency(addDependencies(st.deps, r.tracked), ModPathOf(m))
             ELSE addDependencies(st.deps, r.tracked)]

\* the sub-instance after it read header p
AfterHeader(st, p) ==
    IF IsBuffer(ReadFile(st.FS, p))
    THEN [st EXCEPT !.deps = addDependency(@, p)]
    ELSE [st EXCEPT !.hadError = TRUE]

\* CompilerInstance::performSema over the interface's imports: every header
\* read is reported to the sub-instance's tracker; every imported module is
\* loaded through the sub-instance's own loader chain, whose diagnostics
\* engine and tracker are the sub-instance's
RECURSIVE performSema(_, _, _)
performSema(imports, cfg, st) ==
    IF imports = <<>> \/ st.crashed THEN st
    ELSE IF Head(imports).kind = "header"
    THEN performSema(Tail(imports), cfg, AfterHeader(st, Head(imports).path))
    ELSE performSema(Tail(imports), cfg,
             AfterImport(st, Head(imports).name,
                 openModuleFiles(st.FS, st.hadError, Head(imports).name, cfg)))

\* a rebuild that sets the serialization action before it has the ledger
SerializeWithLedger_LedgerAfter(hadAnyError, ExpectedModuleName, OutPath, fault, sema, col) ==
    IF col.error
    THEN BuildOutcome(TRUE, TRUE, "collectDeps", "CollectDeps", sema.FS, TRUE,
                      col.tracked, <<>>, FALSE, sema.servedStale)
    ELSE IF fault = "silerr"
    THEN BuildOutcome(TRUE, TRUE, "performSILProcessing", "SILProcessing", sema.FS,
                      TRUE, col.tracked, <<>>, FALSE, sema.servedStale)
    ELSE IF fault = "crashSIL"
    THEN BuildOutcome(FALSE, FALSE, "crash", "SILProcessing", sema.FS, hadAnyError,
                      col.tracked, col.Deps, FALSE, sema.servedStale)
    ELSE IF fault = "crashSerialize"
    THEN BuildOutcome(FALSE, FALSE, "crash", "Serialize",
                      serializeInterrupted(sema.FS, OutPath), hadAnyError,
                      col.tracked, col.Deps, FALSE, sema.servedStale)
    ELSE IF fault = "crashAfterSerialize"
    THEN BuildOutcome(FALSE, FALSE, "crash", "Serialize",
                      serialize(sema.FS, OutPath, ExpectedModuleName, <<>>),
                      hadAnyError, col.tracked, col.Deps, TRUE, sema.servedStale)
    ELSE BuildOutcome(TRUE, hadAnyError, IF hadAnyError THEN "hadAnyError" ELSE "",
                      "Done", serialize(sema.FS, OutPath, ExpectedModuleName, <<>>),
                      hadAnyError, col.tracked, col.Deps, TRUE, sema.servedStale)

\* lines 396-422: the ledger is collected; SIL processing runs the
\* serialization callback; SubError = Diags.hadAnyError()
SerializeWithLedger(hadAnyError, ExpectedModuleName, OutPath, fault, sema, col) ==
    IF col.error
    THEN BuildOutcome(TRUE, TRUE, "collectDeps", "CollectDeps", sema.FS, TRUE,
                      col.tracked, <<>>, FALSE, sema.servedStale)
    ELSE IF fault = "silerr"
    THEN BuildOutcome(TRUE, TRUE, "performSILProcessing", "SILProcessing", sema.FS,
                      TRUE, col.tracked, <<>>, FALSE, sema.servedStale)
    ELSE IF fault = "crashSIL"
    THEN BuildOutcome(FALSE, FALSE, "crash", "SILProcessing", sema.FS, hadAnyError,
                      col.tracked, col.Deps, FALSE, sema.servedStale)
    ELSE IF fault = "crashSerialize"
    THEN BuildOutcome(FALSE, FALSE, "crash", "Serialize",
                      serializeInterrupted(sema.FS, OutPath), hadAnyError,
                      col.tracked, col.Deps, FALSE, sema.servedStale)
    ELSE IF fault = "crashAfterSerialize"
    THEN BuildOutcome(FALSE, FALSE, "crash", "Serialize",
                      serialize(sema.FS, OutPath, ExpectedModuleName, col.Deps),
                      hadAnyError, col.tracked, col.Deps, TRUE, sema.servedStale)
    ELSE BuildOutcome(TRUE, hadAnyError, IF hadAnyError THEN "hadAnyError" ELSE "",
                      "Done", serialize(sema.FS, OutPath, ExpectedModuleName, col.Deps),
                      hadAnyError, col.tracked, col.Deps, TRUE, sema.servedStale)

\* a rebuild that goes on to serialization whatever the collector returned
Compile_IgnoresCollectError(hadAnyError, ExpectedModuleName, InPath, OutPath, ModuleCachePath, fault, sema) ==
    IF sema.crashed \/ fault = "crashSema"
    THEN BuildOutcome(FALSE, FALSE, "crash", "Compile", sema.FS,
                      hadAnyError \/ sema.hadError, <<>>, <<>>, FALSE, sema.servedStale)
    ELSE IF sema.hadError \/ fault = "sema"
    THEN BuildOutcome(TRUE, TRUE, "sema", "Compile", sema.FS, TRUE, <<>>, <<>>, FALSE,
                      sema.servedStale)
    ELSE IF fault = "silgen"
    THEN BuildOutcome(TRUE, TRUE, "silgen", "Compile", sema.FS, hadAnyError, <<>>,
                      <<>>, FALSE, sema.servedStale)
    ELSE SerializeWithLedger(hadAnyError, ExpectedModuleName, OutPath, fault, sema,
             [collectDepsForSerialization(sema.FS, sema.deps, InPath, ModuleCachePath)
                 EXCEPT !.error = FALSE])

\* lines 379-407: the outcome of semantic analysis and SIL generation
Compile(hadAnyError, ExpectedModuleName, InPath, OutPath, ModuleCachePath, fault, sema) ==
    IF sema.crashed \/ fault = "crashSema"
    THEN BuildOutcome(FALSE, FALSE, "crash", "Compile", sema.FS,
                      hadAnyError \/ sema.hadError, <<>>, <<>>, FALSE, sema.servedStale)
    ELSE IF sema.hadError \/ fault = "sema"
    THEN BuildOutcome(TRUE, TRUE, "sema", "Compile", sema.FS, TRUE, <<>>, <<>>, FALSE,
                      sema.servedStale)
    ELSE IF fault = "silgen"
    THEN BuildOutcome(TRUE, TRUE, "silgen", "Compile", sema.FS, hadAnyError, <<>>,
                      <<>>, FALSE, sema.servedStale)
    ELSE SerializeWithLedger(hadAnyError, ExpectedModuleName, OutPath, fault, sema,
             collectDepsForSerialization(sema.FS, sema.deps, InPath, ModuleCachePath))

\* a rebuild that compares the declared name before it checks the version and
\* parses the flags
CheckAndCompile_IdentityFirst(FS, hadAnyError, ExpectedModuleName, InPath, OutPath, ModuleCachePath, cfg, hdr) ==
    IF cfg.faults[ExpectedModuleName] = "crashExtract"
    THEN BuildOutcome(FALSE, FALSE, "crash", "ExtractHeader", FS, hadAnyError, <<>>,
                      <<>>, FALSE, FALSE)
    ELSE IF hdr.failed
    THEN BuildOutcome(TRUE, TRUE, hdr.why, "ExtractHeader", FS, TRUE, <<>>, <<>>,
                      FALSE, FALSE)
    ELSE IF NameMismatch(ResolvedModuleName(hdr.name, ExpectedModuleName),
                         ExpectedModuleName)
    THEN BuildOutcome(TRUE, TRUE, "serialization_name_mismatch", "CheckIdentity", FS,
                      TRUE, <<>>, <<>>, FALSE, FALSE)
    ELSE IF UnsupportedVersion(hdr.major, hdr.minor)
    THEN BuildOutcome(TRUE, TRUE, "unsupported_version", "CheckVersion", FS, TRUE,
                      <<>>, <<>>, FALSE, FALSE)
    ELSE IF ~hdr.argsOK
    THEN BuildOutcome(TRUE, TRUE, "parseArgs", "ParseArguments", FS, TRUE, <<>>, <<>>,
                      FALSE, FALSE)
    ELSE IF cfg.faults[ExpectedModuleName] = "setup"
    THEN BuildOutcome(TRUE, TRUE, "setup", "Compile", FS, TRUE, <<>>, <<>>, FALSE,
                      FALSE)
    ELSE Compile(hadAnyError, ExpectedModuleName, InPath, OutPath, ModuleCachePath,
                 cfg.faults[ExpectedModuleName],
                 performSema(hdr.imports, cfg,
                     [FS |-> FS, hadError |-> FALSE, crashed |-> FALSE,
                      deps |-> <<>>, servedStale |-> FALSE]))

\* lines 331-377: version check, argument parsing, identity check, setup
CheckAndCompile(FS, hadAnyError, ExpectedModuleName, InPath, OutPath, ModuleCachePath, cfg, hdr) ==
    IF cfg.faults[ExpectedModuleName] = "crashExtract"
    THEN BuildOutcome(FALSE, FALSE, "crash", "ExtractHeader", FS, hadAnyError, <<>>,
                      <<>>, FALSE, FALSE)
    ELSE IF hdr.failed
    THEN BuildOutcome(TRUE, TRUE, hdr.why, "ExtractHeader", FS, TRUE, <<>>, <<>>,
                      FALSE, FALSE)
    ELSE IF UnsupportedVersion(hdr.major, hdr.minor)
    THEN BuildOutcome(TRUE, TRUE, "unsupported_version", "CheckVersion", FS, TRUE,
                      <<>>, <<>>, FALSE, FALSE)
    ELSE IF ~hdr.argsOK
    THEN BuildOutcome(TRUE, TRUE, "parseArgs", "ParseArguments", FS, TRUE, <<>>, <<>>,
                      FALSE, FALSE)
    ELSE IF NameMismatch(ResolvedModuleName(hdr.name, ExpectedModuleName),
                         ExpectedModuleName)
    THEN BuildOutcome(TRUE, TRUE, "serialization_name_mismatch", "CheckIdentity", FS,
                      TRUE, <<>>, <<>>, FALSE, FALSE)
    ELSE IF cfg.faults[ExpectedModuleName] = "setup"
    THEN BuildOutcome(TRUE, TRUE, "setup", "Compile", FS, TRUE, <<>>, <<>>, FALSE,
                      FALSE)
    ELSE Compile(hadAnyError, ExpectedModuleName, InPath, OutPath, ModuleCachePath,
                 cfg.faults[ExpectedModuleName],
                 performSema(hdr.imports, cfg,
                     [FS |-> FS, hadError |-> FALSE, crashed |-> FALSE,
                      deps |-> <<>>, servedStale |-> FALSE]))

\* buildSwiftModuleFromSwiftInterface, the static function.  hadAnyError is
\* Diags.hadAnyError() of the engine the caller passes in.
buildSwiftModuleFromSwiftInterface(FS, hadAnyError, ExpectedModuleName, InPath, OutPath, ModuleCachePath, cfg) ==
    CheckAndCompile(FS, hadAnyError, ExpectedModuleName, InPath, OutPath,
                    ModuleCachePath, cfg,
                    extractSwiftInterfaceVersionAndArgs(FS, InPath))

NoBuild(FS, hadAnyError) ==
    [failed |-> FALSE, crashed |-> FALSE, why |-> "not run", stage |-> "",
     FS |-> FS, hadAnyError |-> hadAnyError, tracked |-> <<>>, Deps |-> <<>>,
     serialized |-> FALSE, servedStale |-> FALSE]

\* the request's result when the loader returns before validating
ReturnEarly(outcome, FS, hadAnyError) ==
    [outcome |-> outcome, FS |-> FS, hadAnyError |-> hadAnyError,
     tracked |-> <<>>, validated |-> FALSE, upToDate |-> "", rebuilds |-> 0,
     handed |-> FALSE, servedStale |-> FALSE, build |-> NoBuild(FS, hadAnyError),
     vtracked |-> <<>>, vdiagnosed |-> FALSE]

\* a loader that goes on to the serialized loader whatever the rebuild returned
AfterBuild_Delegates(OutPath, upToDate, build) ==
    [outcome |-> IF IsBuffer(ReadFile(build.FS, OutPath)) THEN "loaded"
                 ELSE "no_such_file",
     FS |-> build.FS, hadAnyError |-> build.hadAnyError,
     tracked |-> upToDate.tracked \o build.tracked, validated |-> TRUE,
     upToDate |-> "false", rebuilds |-> 1, handed |-> TRUE,
     servedStale |-> build.servedStale \/ ~ServedFresh(build.FS, OutPath),
     build |-> build, vtracked |-> upToDate.tracked,
     vdiagnosed |-> upToDate.diagnosed]

\* lines 488-507: the rebuild's result decides; then the serialized loader
AfterBuild(OutPath, upToDate, build) ==
    [outcome |-> IF build.failed THEN "invalid_argument"
                 ELSE IF IsBuffer(ReadFile(build.FS, OutPath)) THEN "loaded"
                 ELSE "no_such_file",
     FS |-> build.FS, hadAnyError |-> build.hadAnyError,
     tracked |-> upToDate.tracked \o build.tracked, validated |-> TRUE,
     upToDate |-> "false", rebuilds |-> 1, handed |-> ~build.failed,
     servedStale |-> \/ build.servedStale
                     \/ ~build.failed /\ ~ServedFresh(build.FS, OutPath),
     build |-> build, vtracked |-> upToDate.tracked,
     vdiagnosed |-> upToDate.diagnosed]

\* a loader that runs the rebuild a second time when the first one failed
AfterUpToDateCheck_Retries(FS, hadAnyError, ModuleName, InPath, OutPath, cfg, upToDate) ==
    IF upToDate.result = "abort"
    THEN [ReturnEarly("abort", FS, hadAnyError) EXCEPT
             !.validated = TRUE, !.upToDate = "abort"]
    ELSE IF upToDate.result = "true"
    THEN [outcome |-> "loaded", FS |-> FS, hadAnyError |-> hadAnyError,
          tracked |-> upToDate.tracked, validated |-> TRUE, upToDate |-> "true",
          rebuilds |-> 0, handed |-> TRUE, servedStale |-> ~ServedFresh(FS, OutPath),
          build |-> NoBuild(FS, hadAnyError), vtracked |-> upToDate.tracked,
          vdiagnosed |-> upToDate.diagnosed]
    ELSE IF buildSwiftModuleFromSwiftInterface(
                 FS, hadAnyError \/ upToDate.diagnosed, ModuleName, InPath,
                 OutPath, CacheDir, cfg).failed
    THEN [AfterBuild(OutPath, upToDate,
             buildSwiftModuleFromSwiftInterface(
                 FS, hadAnyError \/ upToDate.diagnosed, ModuleName, InPath,
                 OutPath, CacheDir,
                 [cfg EXCEPT !.faults = [m \in DOMAIN cfg.faults |-> "none"]]))
          EXCEPT !.rebuilds = 2]
    ELSE AfterBuild(OutPath, upToDate,
             buildSwiftModuleFromSwiftInterface(
                 FS, hadAnyError \/ upToDate.diagnosed, ModuleName, InPath,
                 OutPath, CacheDir, cfg))

\* lines 486-492: the up-to-date check decides whether the rebuild runs
AfterUpToDateCheck(FS, hadAnyError, ModuleName, InPath, OutPath, cfg, upToDate) ==
    IF upToDate.result = "abort"
    THEN [ReturnEarly("abort", FS, hadAnyError) EXCEPT
             !.validated = TRUE, !.upToDate = "abort"]
    ELSE IF upToDate.result = "true"
    THEN [outcome |-> "loaded", FS |-> FS, hadAnyError |-> hadAnyError,
          tracked |-> upToDate.tracked, validated |-> TRUE, upToDate |-> "true",
          rebuilds |-> 0, handed |-> TRUE, servedStale |-> ~ServedFresh(FS, OutPath),
          build |-> NoBuild(FS, hadAnyError), vtracked |-> upToDate.tracked,
          vdiagnosed |-> upToDate.diagnosed]
    ELSE AfterBuild(OutPath, upToDate,
             buildSwiftModuleFromSwiftInterface(
                 FS, hadAnyError \/ upToDate.diagnosed, ModuleName, InPath,
                 OutPath, CacheDir, cfg))

\* ParseableInterfaceModuleLoader::openModuleFiles
openModuleFiles(FS, hadAnyError, ModuleName, cfg) ==
    IF ~exists(FS, InPathOf(ModuleName))
    THEN ReturnEarly("no_such_file", FS, hadAnyError)
    ELSE IF cfg.mode = "PreferSerialized"
            /\ serializedASTLooksValidOrCannotBeRead(FS, ModPathOf(ModuleName))
    THEN ReturnEarly("not_supported", FS, hadAnyError)
    ELSE AfterUpToDateCheck(FS, hadAnyError, ModuleName, InPathOf(ModuleName),
             computeCachedOutputPath(ModuleName, InPathOf(ModuleName)), cfg,
             swiftModuleIsUpToDate(FS, ModuleName,
                 computeCachedOutputPath(ModuleName, InPathOf(ModuleName)),
                 cfg.asserts))

(***************************************************************************)
(* The host: a file system that changes between load requests, one         *)
(* diagnostics engine, one ParseableInterfaceModuleLoader.                 *)
(***************************************************************************)
VARIABLES
    files,      \* the file system
    diagErr,    \* Ctx.Diags.hadAnyError() of the host
    LoadMode,   \* the loader's ModuleLoadingMode
    nStep,      \* steps so far
    last,       \* what the last step did
    probe       \* one call of a single function: its inputs and its result

vars == <<files, diagErr, LoadMode, nStep, last, probe>>

LoadModes == {"PreferSerialized", "PreferParseable"}

OtherModule(m) == IF m = "A" THEN "B" ELSE "A"

\* what the interface of m imports: A imports B and reads x.h, B reads x.h
ImportsOf(m) ==
    IF m = "A" THEN <<ImportModule("B"), ImportHeader(HeaderX)>>
    ELSE <<ImportHeader(HeaderX)>>

\* the interface texts a file m.swiftinterface can hold
GoodInterface(m) == Text(10, 0, TRUE, 1, 0, TRUE, TRUE, m, ImportsOf(m))
InterfaceTexts(m) ==
    {GoodInterface(m),
     Text(11, 0, TRUE, 1, 1, TRUE, TRUE, m, <<>>),
     Text(12, 0, TRUE, 2, 0, TRUE, TRUE, m, ImportsOf(m)),
     Text(13, 0, TRUE, 2, 0, TRUE, TRUE, OtherModule(m), ImportsOf(m)),
     Text(14, 0, FALSE, 0, 0, TRUE, TRUE, m, ImportsOf(m)),
     Text(15, 0, TRUE, 1, 0, FALSE, TRUE, m, ImportsOf(m)),
     Text(16, 0, TRUE, 1, 0, TRUE, FALSE, m, ImportsOf(m)),
     Text(17, 0, TRUE, 1, 0, TRUE, TRUE, OtherModule(m), ImportsOf(m)),
     Text(18, 0, TRUE, 1, 0, TRUE, FALSE, OtherModule(m), ImportsOf(m))}

\* what a change from outside can put at a path
ContentsAt(p) ==
    IF p \in Headers THEN {PlainText(n) : n \in 0..MaxContent} \cup {NoFile}
    ELSE IF p.ext = SwiftInterfaceExt THEN InterfaceTexts(p.stem[1]) \cup {NoFile}
    ELSE IF p.dir = CacheDir THEN {NoFile, Unreadable, MalformedAST}
    ELSE {NoFile, Unreadable, MalformedAST, AST("Valid", p.stem[1], <<>>)}

InitialFiles ==
    [p \in AllPaths |->
        IF p \in Headers THEN PlainText(0)
        ELSE IF p.ext = SwiftInterfaceExt THEN GoodInterface(p.stem[1])
        ELSE NoFile]

\* in one request at most one compile step misbehaves
FaultChoices ==
    {f \in [Modules -> Faults] : \E m \in Modules : f[m] = "none"}

NoStep == [op |-> "init"]
NoProbe == [fn |-> "none"]
NoFaults == [m \in Modules |-> "none"]

\* the files after an earlier process loaded A, and B with it, into the cache
WarmFiles ==
    openModuleFiles(InitialFiles, FALSE, "A",
        [mode |-> "PreferParseable", asserts |-> TRUE, faults |-> NoFaults]).FS

\* what the step before did, when it was a load of the same module
NoPrior == [same |-> FALSE]
PriorOf(m) ==
    IF last.op = "load" /\ last.mod = m
    THEN [same |-> TRUE, rebuilds |-> last.rebuilds, serialized |-> last.serialized,
          crashed |-> last.crashed, failed |-> last.failed,
          slotEmpty |-> last.slotBefore = NoFile]
    ELSE NoPrior

Init ==
    /\ files \in {InitialFiles, WarmFiles}
    /\ diagErr = FALSE
    /\ LoadMode \in LoadModes
    /\ nStep = 0
    /\ last = NoStep
    /\ probe = NoProbe

\* a file is written, replaced or removed from outside, between two loads
Mutate(p, c) ==
    /\ nStep < MaxSteps
    /\ c # files[p]
    /\ files' = [files EXCEPT ![p] = c]
    /\ nStep' = nStep + 1
    /\ last' = [op |-> "mutate"]
    /\ UNCHANGED <<diagErr, LoadMode, probe>>

\* a failed assertion ends the host process
HostAlive == last.op = "load" => last.outcome # "abort"

\* the host asks the loader for module m
Load(m, faults) ==
    LET r == openModuleFiles(files, diagErr, m,
                 [mode |-> LoadMode, asserts |-> TRUE, faults |-> faults])
        OutPath == OutPathOf(m)
    IN  /\ nStep < MaxSteps
        /\ HostAlive
        /\ files' = r.FS
        /\ diagErr' = r.hadAnyError
        /\ nStep' = nStep + 1
        /\ last' = [op |-> "load", mod |-> m, outcome |-> r.outcome,
                    validated |-> r.validated, upToDate |-> r.upToDate,
                    rebuilds |-> r.rebuilds, handed |-> r.handed,
                    servedStale |-> r.servedStale, tracked |-> r.tracked,
                    failed |-> r.build.failed, crashed |-> r.build.crashed,
                    why |-> r.build.why, stage |-> r.build.stage,
                    Deps |-> r.build.Deps, serialized |-> r.build.serialized,
                    slotBefore |-> files[OutPath], errBefore |-> diagErr,
                    staleBefore |-> StalePaths(files, OutPath),
                    vtracked |-> r.vtracked, vdiagnosed |-> r.vdiagnosed,
                    prior |-> PriorOf(m)]
        /\ UNCHANGED <<LoadMode, probe>>

\* the host process ends and a new one starts, with its own loader
Restart(mode) ==
    /\ nStep < MaxSteps
    /\ diagErr \/ ~HostAlive
    /\ diagErr' = FALSE
    /\ LoadMode' = mode
    /\ nStep' = nStep + 1
    /\ last' = [op |-> "restart"]
    /\ UNCHANGED <<files, probe>>

Next ==
    \/ \E p \in AllPaths : \E c \in ContentsAt(p) : Mutate(p, c)
    \/ \E m \in Modules : \E faults \in FaultChoices : Load(m, faults)
    \/ \E mode \in LoadModes : Restart(mode)

Spec == Init /\ [][Next]_vars

(***************************************************************************)
(* collectDepsForSerialization on its own: the files, the dependencies the *)
(* sub-instance's tracker holds and the cache path are the inputs.         *)
(***************************************************************************)
\* the tracker holds at most MaxReported paths
MaxReported == 2

HeaderY == MkPath(DirName, <<"y">>, "h")
\* a file of len bytes that sum to sum
Blob(len, sum) == Text(len, sum, FALSE, 0, 0, FALSE, FALSE, "", <<>>)
\* the entry a collector made for path p when p held buf
EntryFor(buf, p) == FileDependency(getBufferSize(buf), xxHash64(buf), p)

HostIdle ==
    /\ files = InitialFiles
    /\ diagErr = FALSE
    /\ LoadMode = "PreferParseable"
    /\ nStep = 0
    /\ last = NoStep

HeaderTexts == {PlainText(n) : n \in 0..MaxContent}

\* the cached module of B: absent, damaged, or built when x.h and y.h held
\* some texts, with x.h alone or x.h and y.h in its ledger
NestedArtifacts ==
    {NoFile, MalformedAST}
        \cup {AST("Valid", "B", <<EntryFor(bx, HeaderX)>>) : bx \in HeaderTexts}
        \cup {AST("Valid", "B", <<EntryFor(bx, HeaderX), EntryFor(by, HeaderY)>>) :
                 bx \in HeaderTexts, by \in HeaderTexts}

\* a directory next to the cache directory whose name begins with the cache
\* directory's name, and a module of B in it that was built against y.h
SiblingDir == CacheDir \o <<"c">>
SiblingModule == MkPath(SiblingDir, <<"B">>, SwiftModuleExt)
SiblingArtifact == AST("Valid", "B", <<EntryFor(PlainText(1), HeaderY)>>)

CollectFiles(cx, cy, b) ==
    [p \in {HeaderX, HeaderY, OutPathOf("B"), SiblingModule, InPathOf("A")} |->
        IF p = HeaderX THEN cx
        ELSE IF p = HeaderY THEN cy
        ELSE IF p = OutPathOf("B") THEN b
        ELSE IF p = SiblingModule THEN SiblingArtifact
        ELSE GoodInterface("A")]

\* the tracker's list: distinct paths, in the order they were first read
ReportedLists ==
    {q \in UNION {[1..n -> {HeaderX, HeaderY, OutPathOf("B"), SiblingModule}] :
                     n \in 0..MaxReported} :
        \A i \in 1..Len(q) : \A j \in 1..Len(q) : i # j => q[i] # q[j]}

InitCollect ==
    /\ HostIdle
    /\ \E cx \in HeaderTexts \cup {NoFile} : \E cy \in HeaderTexts \cup {NoFile} :
       \E b \in NestedArtifacts : \E q \in ReportedLists :
       \E cache \in {CacheDir, <<>>} :
          probe = [fn |-> "collectDepsForSerialization",
                   FS |-> CollectFiles(cx, cy, b), DTDeps |-> q,
                   InPath |-> InPathOf("A"), ModuleCachePath |-> cache,
                   done |-> FALSE]

RunCollect ==
    /\ probe.fn = "collectDepsForSerialization"
    /\ ~probe.done
    /\ probe' = [probe EXCEPT !.done = TRUE] @@
                 [out |-> collectDepsForSerialization(probe.FS, probe.DTDeps,
                              probe.InPath, probe.ModuleCachePath)]
    /\ UNCHANGED <<files, diagErr, LoadMode, nStep, last>>

NextCollect == RunCollect

SpecCollect == InitCollect /\ [][NextCollect]_vars

(***************************************************************************)
(* swiftModuleIsUpToDate on its own: the candidate file, the files its     *)
(* ledger names and whether the build keeps assertions are the inputs.     *)
(***************************************************************************)
\* a candidate's ledger holds at most MaxLedger entries
MaxLedger == 2

SizedTexts == {Blob(len, sum) : len \in 1..2, sum \in 0..MaxContent}

LedgerEntries ==
    {EntryFor(c, HeaderX) : c \in SizedTexts} \cup {EntryFor(Blob(1, 0), HeaderY)}

Candidates ==
    {NoFile, Unreadable, MalformedAST}
        \cup {AST("Valid", n, d) : n \in Modules,
                 d \in UNION {[1..k -> LedgerEntries] : k \in 0..MaxLedger}}

ValidateFiles(cx, cy, cand) ==
    [p \in {HeaderX, HeaderY, OutPathOf("A")} |->
        IF p = HeaderX THEN cx ELSE IF p = HeaderY THEN cy ELSE cand]

InitValidate ==
    /\ HostIdle
    /\ \E cx \in SizedTexts \cup {NoFile, Unreadable} :
       \E cy \in {Blob(1, 0), Blob(1, 1), NoFile} :
       \E cand \in Candidates : \E asserts \in BOOLEAN :
          probe = [fn |-> "swiftModuleIsUpToDate",
                   FS |-> ValidateFiles(cx, cy, cand), ModuleName |-> "A",
                   OutPath |-> OutPathOf("A"), asserts |-> asserts,
                   done |-> FALSE]

RunValidate ==
    /\ probe.fn = "swiftModuleIsUpToDate"
    /\ ~probe.done
    /\ probe' = [probe EXCEPT !.done = TRUE] @@
                 [out |-> swiftModuleIsUpToDate(probe.FS, probe.ModuleName,
                              probe.OutPath, probe.asserts)]
    /\ UNCHANGED <<files, diagErr, LoadMode, nStep, last>>

NextValidate == RunValidate

SpecValidate == InitValidate /\ [][NextValidate]_vars

(***************************************************************************)
(* Properties.                                                             *)
(***************************************************************************)
\* C1: whenever a load hands the cache-slot artifact to the serialized
\* loader, on a hit or right after a rebuild, the artifact is valid and
\* every entry of its ledger has the size and hash of the file now at its
\* path; the same holds for every nested artifact the rebuild's compile step
\* was handed.
C1_NeverServesStale ==
    (last.op = "load" /\ last.handed) =>
        /\ ServedFresh(files, OutPathOf(last.mod))
        /\ ~last.servedStale

\* a load found an artifact in the slot whose ledger no longer matched the
\* files, rebuilt, and handed the new artifact
C1_StaleReplaced ==
    /\ last.op = "load"
    /\ last.handed
    /\ last.rebuilds = 1
    /\ last.staleBefore # {}

\* C2 as stated: of two consecutive loads of one module in the mode that
\* prefers the interface, the first finding the slot empty and the interface
\* present and nothing changing in between, the first runs the rebuild once
\* and the second is a hit that runs none.
C2_TwoLoadsOneRebuild ==
    (/\ last.op = "load"
     /\ last.prior.same
     /\ last.prior.slotEmpty
     /\ LoadMode = "PreferParseable"
     /\ exists(files, InPathOf(last.mod)))
        => /\ last.prior.rebuilds = 1
           /\ last.rebuilds = 0
           /\ last.upToDate = "true"

\* C2 amended: the same, when the first load's rebuild wrote its artifact.
C2_TwoLoadsOneRebuildIfWritten ==
    (/\ last.op = "load"
     /\ last.prior.same
     /\ last.prior.slotEmpty
     /\ last.prior.serialized
     /\ LoadMode = "PreferParseable"
     /\ exists(files, InPathOf(last.mod)))
        => /\ last.prior.rebuilds = 1
           /\ last.rebuilds = 0
           /\ last.upToDate = "true"

\* a second load that hit what the first load built into the empty slot
C2_SecondLoadHit ==
    /\ last.op = "load"
    /\ last.prior.same
    /\ last.prior.slotEmpty
    /\ last.prior.serialized
    /\ last.prior.rebuilds = 1
    /\ last.rebuilds = 0
    /\ last.outcome = "loaded"

\* C3 as stated: when the slot's ledger holds an entry for a readable file
\* whose fingerprint has changed, the next load of the module runs a rebuild
\* and the rebuilt artifact's ledger holds the file with its new fingerprint.
C3_StaleEntryRebuildsAndRecords ==
    (last.op = "load" /\ last.staleBefore # {}) =>
        /\ last.rebuilds = 1
        /\ last.serialized
        /\ \A d \in last.staleBefore :
              \E i \in 1..Len(last.Deps) :
                 last.Deps[i].Path = d /\ EntryMatches(files, last.Deps[i])

\* C3 amended: when the slot's ledger holds such an entry, the next load that
\* reaches the up-to-date check runs a rebuild, and if that rebuild writes an
\* artifact every entry its ledger holds for the file has the file's current
\* fingerprint.
C3_StaleEntryRebuilds ==
    (last.op = "load" /\ last.staleBefore # {} /\ last.validated) =>
        /\ last.upToDate = "false"
        /\ last.rebuilds = 1
        /\ last.serialized =>
              \A i \in 1..Len(last.Deps) :
                 last.Deps[i].Path \in last.staleBefore
                    => EntryMatches(files, last.Deps[i])

\* a load that found a changed dependency, rebuilt, and wrote a ledger that
\* holds the dependency with its current fingerprint
C3_ChangedDependencyRecorded ==
    /\ last.op = "load"
    /\ last.staleBefore # {}
    /\ last.rebuilds = 1
    /\ last.serialized
    /\ \A d \in last.staleBefore :
          \E i \in 1..Len(last.Deps) :
             last.Deps[i].Path = d /\ EntryMatches(files, last.Deps[i])

\* C5: when a step of a rebuild, from header extraction to serialization,
\* ends abnormally, the rebuild returns failure, the load returns an error
\* and hands nothing on, and the host can take a further load request.
C5_CrashIsContained ==
    (last.op = "load" /\ last.crashed) =>
        /\ last.failed
        /\ last.outcome = "invalid_argument"
        /\ ~last.handed
        /\ HostAlive

\* a load whose rebuild crashed was followed by a load of the same module
\* that the host completed
C5_LoadAfterCrash ==
    /\ last.op = "load"
    /\ last.prior.same
    /\ last.prior.crashed
    /\ last.prior.failed
    /\ last.outcome = "loaded"

\* C6 as stated: after a rebuild that crashed, the slot holds no artifact the
\* up-to-date check accepts, unless the crashed rebuild left the slot as it
\* found it.
C6_NoUpToDateArtifactAfterCrash ==
    (/\ last.op = "load"
     /\ last.crashed
     /\ files[OutPathOf(last.mod)] # last.slotBefore)
        => swiftModuleIsUpToDate(files, last.mod, OutPathOf(last.mod), TRUE).result
              # "true"

\* the interface at the path of module m, as the rebuild reads it
InterfaceOf(m) == files[InPathOf(m)]
HeaderExtracts(m) ==
    /\ InterfaceOf(m).kind = "text"
    /\ InterfaceOf(m).hasVers
    /\ InterfaceOf(m).hasFlags

\* C7: when a rebuild is asked for a module and the flags of the interface
\* name another module, the rebuild fails, the compile step is not entered
\* and the output path is left as it was; the failure is the name mismatch
\* whenever the rebuild got as far as resolving the flags.
C7_NameMismatchFails ==
    (/\ last.op = "load"
     /\ last.rebuilds = 1
     /\ HeaderExtracts(last.mod)
     /\ InterfaceOf(last.mod).name # last.mod)
        => /\ last.failed
           /\ StageNo(last.stage) < StageNo("Compile")
           /\ ~last.serialized
           /\ files[OutPathOf(last.mod)] = last.slotBefore
           /\ (/\ ~last.crashed
               /\ InterfaceOf(last.mod).major = 1
               /\ InterfaceOf(last.mod).argsOK)
                  => /\ last.why = "serialization_name_mismatch"
                     /\ last.stage = "CheckIdentity"

\* a rebuild was refused for the name its interface declares
C7_RefusedForName ==
    /\ last.op = "load"
    /\ last.rebuilds = 1
    /\ InterfaceOf(last.mod).name # last.mod
    /\ last.why = "serialization_name_mismatch"
    /\ last.outcome = "invalid_argument"

\* C8: a rebuild of an interface whose major version is not the supported
\* one fails as an unsupported version at the version check, before the
\* flags are applied and the compile step entered; an interface of the
\* supported major version passes the check whatever its minor version.
C8_VersionGate ==
    (/\ last.op = "load"
     /\ last.rebuilds = 1
     /\ ~last.crashed
     /\ HeaderExtracts(last.mod))
        => IF InterfaceOf(last.mod).major # 1
           THEN /\ last.failed
                /\ last.why = "unsupported_version"
                /\ last.stage = "CheckVersion"
                /\ StageNo(last.stage) < StageNo("ParseArguments")
                /\ files[OutPathOf(last.mod)] = last.slotBefore
           ELSE /\ last.why # "unsupported_version"
                /\ StageNo(last.stage) > StageNo("CheckVersion")

\* a rebuild was refused for its interface's major version
C8_RefusedForVersion ==
    /\ last.op = "load"
    /\ last.rebuilds = 1
    /\ InterfaceOf(last.mod).major = 2
    /\ last.why = "unsupported_version"
    /\ last.outcome = "invalid_argument"

\* the candidate of a call of the up-to-date check
Candidate == probe.FS[probe.OutPath]
Validated == probe.fn = "swiftModuleIsUpToDate" /\ probe.done

\* C4 as stated: the up-to-date check answers up-to-date only if the
\* candidate is readable and valid, the name it embeds is the requested
\* name, and every entry of its ledger names a readable file of the recorded
\* size and hash.
C4_UpToDateOnlyIfAllThree ==
    (Validated /\ probe.out.result = "true") =>
        /\ Candidate.kind = "ast"
        /\ Candidate.status = "Valid"
        /\ Candidate.name = probe.ModuleName
        /\ \A i \in 1..Len(Candidate.deps) :
               EntryMatches(probe.FS, Candidate.deps[i])

\* a call of the collector and what it was given
Collected == probe.fn = "collectDepsForSerialization" /\ probe.done
NestedArtifact == probe.FS[OutPathOf("B")]
Reported(p) == \E i \in 1..Len(probe.DTDeps) : probe.DTDeps[i] = p
InLedger(p) == \E i \in 1..Len(probe.out.Deps) : probe.out.Deps[i].Path = p
NestedIsReported ==
    /\ Collected
    /\ ~probe.out.error
    /\ Reported(OutPathOf("B"))
    /\ NestedArtifact.kind = "ast"
    /\ NestedArtifact.status = "Valid"

\* C9 as stated: when the compile step reported a valid cached module lying
\* in the cache directory, the collected ledger holds an entry for every
\* path of that module's ledger.
C9_NestedLedgerSpliced ==
    NestedIsReported =>
        \A i \in 1..Len(NestedArtifact.deps) : InLedger(NestedArtifact.deps[i].Path)

\* C9 amended: the same, when the collector is given the cache directory as
\* its module cache path.
C9_NestedLedgerSplicedGivenCachePath ==
    (NestedIsReported /\ probe.ModuleCachePath = CacheDir) =>
        \A i \in 1..Len(NestedArtifact.deps) : InLedger(NestedArtifact.deps[i].Path)

\* the compile step reported the cached module and nothing else, the
\* module's ledger holds x.h and y.h, and the collected ledger holds both
C9_SplicedUnreported ==
    /\ NestedIsReported
    /\ probe.DTDeps = <<OutPathOf("B")>>
    /\ Len(NestedArtifact.deps) = 2
    /\ InLedger(HeaderX)
    /\ InLedger(HeaderY)

\* the entry of the interface input with the fingerprint it has now
InputEntry ==
    [Size |-> probe.FS[probe.InPath].len,
     Hash |-> probe.FS[probe.InPath].sum % HashMod,
     Path |-> probe.InPath]

C11_LedgerUniqueByPath ==
    (Collected /\ ~probe.out.error) =>
        \A i \in 1..Len(probe.out.Deps) : \A j \in 1..Len(probe.out.Deps) :
           i # j => probe.out.Deps[i].Path # probe.out.Deps[j].Path

\* C12 as stated: no collected ledger holds two entries of one path with
\* different fingerprints.
C12_NoConflictingEntries ==
    (Collected /\ ~probe.out.error) =>
        \A i \in 1..Len(probe.out.Deps) : \A j \in 1..Len(probe.out.Deps) :
           probe.out.Deps[i].Path = probe.out.Deps[j].Path
              => probe.out.Deps[i] = probe.out.Deps[j]

\* C13: once a load has run the rebuild, every failure of the rebuild, at
\* whatever step and by error or by crash, makes the load return
\* invalid_argument; the load does not defer and hands nothing to the
\* serialized loader.
C13_RebuildFailureIsLoadError ==
    (last.op = "load" /\ last.rebuilds = 1 /\ last.why # "") =>
        /\ last.outcome = "invalid_argument"
        /\ ~last.handed

\* a load whose rebuild failed in the compile step, without crashing, and
\* that returned invalid_argument
C13_CompileErrorIsLoadError ==
    /\ last.op = "load"
    /\ last.rebuilds = 1
    /\ last.why = "sema"
    /\ ~last.crashed
    /\ last.outcome = "invalid_argument"

\* C14: a load of a module whose interface file does not exist returns
\* no_such_file_or_directory in every mode, with no up-to-date check and no
\* rebuild, no file written, nothing reported to the tracker and nothing
\* diagnosed.
C14_MissingInterfaceDefers ==
    [][(last'.op = "load" /\ files[InPathOf(last'.mod)] = NoFile) =>
          /\ last'.outcome = "no_such_file"
          /\ ~last'.validated
          /\ last'.rebuilds = 0
          /\ last'.tracked = <<>>
          /\ files' = files
          /\ diagErr' = diagErr]_vars

\* a load that returned no_such_file_or_directory while the slot held an
\* artifact
C14_DeferredWithSlotFilled ==
    /\ last.op = "load"
    /\ files[InPathOf(last.mod)] = NoFile
    /\ last.outcome = "no_such_file"
    /\ last.slotBefore # NoFile

\* the module next to the interface of the last load
AdjacentOfLast == files[ModPathOf(last.mod)]
AdjacentReadableValid ==
    AdjacentOfLast.kind = "ast" /\ AdjacentOfLast.status = "Valid"

\* C15 as stated: with the interface present, a load defers exactly when the
\* mode prefers serialized modules and the adjacent module is readable and
\* valid; otherwise it goes on to the up-to-date check.
C15_DefersOnlyOnValidAdjacent ==
    (last.op = "load" /\ files[InPathOf(last.mod)] # NoFile) =>
        /\ (last.outcome = "not_supported")
              <=> (LoadMode = "PreferSerialized" /\ AdjacentReadableValid)
        /\ last.outcome # "not_supported" => last.validated

\* C15 amended: the load defers exactly when the mode prefers serialized
\* modules and the adjacent module is readable and valid or exists and cannot
\* be read; otherwise it goes on to the up-to-date check.
C15_DefersOnValidOrUnreadableAdjacent ==
    (last.op = "load" /\ files[InPathOf(last.mod)] # NoFile) =>
        /\ (last.outcome = "not_supported")
              <=> /\ LoadMode = "PreferSerialized"
                  /\ AdjacentReadableValid \/ AdjacentOfLast = Unreadable
        /\ last.outcome # "not_supported" => last.validated

\* a load that deferred to an adjacent module it could not read
C15_DeferredOnUnreadable ==
    /\ last.op = "load"
    /\ LoadMode = "PreferSerialized"
    /\ AdjacentOfLast = Unreadable
    /\ last.outcome = "not_supported"

\* the paths the last load reported to the outer tracker
TrackedOfLast == {last.tracked[i] : i \in 1..Len(last.tracked)}

\* C16 as stated: a load reports to the tracker every file it reads or
\* validates: the interface it rebuilds from, the cache slot it checks and
\* the adjacent module it tests, whether the load hits, misses or fails.
C16_EveryReadFileTracked ==
    (last.op = "load" /\ files[InPathOf(last.mod)] # NoFile) =>
        /\ last.rebuilds = 1 => InPathOf(last.mod) \in TrackedOfLast
        /\ (last.validated /\ last.slotBefore # NoFile)
              => OutPathOf(last.mod) \in TrackedOfLast
        /\ (LoadMode = "PreferSerialized" /\ AdjacentOfLast # NoFile)
              => ModPathOf(last.mod) \in TrackedOfLast

\* a load of m, with no fault of its own, from the present files by a host
\* whose diagnostic engine has or has not seen an error
LoadNow(m, hadAnyError) ==
    openModuleFiles(files, hadAnyError, m,
        [mode |-> LoadMode, asserts |-> TRUE, faults |-> NoFaults])

\* C17 as stated: after a load for one key, whatever became of it, a load for
\* the other key returns what it would return, and leaves in its slot what it
\* would leave, had the host not seen the first load's diagnostics.
C17_OtherKeyLoadIndependent ==
    (last.op = "load" /\ HostAlive) =>
        LET K2 == OtherModule(last.mod)
        IN  /\ LoadNow(K2, diagErr).outcome = LoadNow(K2, FALSE).outcome
            /\ LoadNow(K2, diagErr).FS[OutPathOf(K2)]
                  = LoadNow(K2, FALSE).FS[OutPathOf(K2)]

(***************************************************************************)
(* computeCachedOutputPath on its own: two computations, each with its own *)
(* toolchain version, cache directory, module name, configuration          *)
(* components and interface path, and each with its own interface content. *)
(***************************************************************************)
\* each computation draws its version and its configuration components from
\* MaxKeyVariants values
MaxKeyVariants == 2
KeyVersions == ToolsVersion..(ToolsVersion + MaxKeyVariants - 1)
KeyPCHHashComponents == PCHHashComponents..(PCHHashComponents + MaxKeyVariants - 1)
KeyCacheDirs == {CacheDir, <<"d">>}
OtherDirName == <<"t">>
KeyInPaths ==
    {InPathOf(m) : m \in Modules}
       \cup {MkPath(OtherDirName, <<"A">>, SwiftInterfaceExt)}
KeyTexts == {PlainText(0), PlainText(MaxContent)}

KeyInputs ==
    [Ctx : [vers : KeyVersions],
     SubInvocation : [ClangModuleCachePath : KeyCacheDirs, ModuleName : Modules,
                      PCHHashComponents : KeyPCHHashComponents],
     InPath : KeyInPaths,
     text : KeyTexts]

InitKey ==
    /\ HostIdle
    /\ \E first \in KeyInputs : \E second \in KeyInputs :
          probe = [fn |-> "computeCachedOutputPath", first |-> first,
                   second |-> second, done |-> FALSE]

RunKey ==
    /\ probe.fn = "computeCachedOutputPath"
    /\ ~probe.done
    /\ probe' = [probe EXCEPT !.done = TRUE] @@
                 [out |-> [first |-> computeCachedOutputPathIn(probe.first.Ctx,
                                         probe.first.SubInvocation,
                                         probe.first.InPath),
                           second |-> computeCachedOutputPathIn(probe.second.Ctx,
                                          probe.second.SubInvocation,
                                          probe.second.InPath)]]
    /\ UNCHANGED <<files, diagErr, LoadMode, nStep, last>>

NextKey == RunKey

SpecKey == InitKey /\ [][NextKey]_vars

KeyComputed == probe.fn = "computeCachedOutputPath" /\ probe.done

\* the two computations have the same key inputs; the contents may differ
SameKeyInputs ==
    /\ probe.first.Ctx = probe.second.Ctx
    /\ probe.first.SubInvocation = probe.second.SubInvocation
    /\ probe.first.InPath = probe.second.InPath

KeyHashOf(in) ==
    getCacheHash(in.Ctx.vers, in.InPath, in.SubInvocation.PCHHashComponents)

SlotCorrupt(c) ==
    \/ c = NoFile
    \/ c = Unreadable
    \/ c.kind = "ast" /\ c.status # "Valid"

\* C19: a load that finds its slot missing, unreadable or not deserializable
\* takes it as a miss: the up-to-date check answers no, diagnoses nothing and
\* reports nothing to the tracker, the rebuild runs, and when the rebuild
\* returns success the slot holds a new valid artifact of the module and the
\* load hands it on.
C19_CorruptSlotIsMiss ==
    (last.op = "load" /\ last.validated /\ SlotCorrupt(last.slotBefore)) =>
        /\ last.upToDate = "false"
        /\ ~last.vdiagnosed
        /\ last.vtracked = <<>>
        /\ last.rebuilds = 1
        /\ last.why = "" =>
              /\ last.outcome = "loaded"
              /\ last.handed
              /\ files[OutPathOf(last.mod)] # last.slotBefore
              /\ files[OutPathOf(last.mod)].kind = "ast"
              /\ files[OutPathOf(last.mod)].status = "Valid"
              /\ files[OutPathOf(last.mod)].name = last.mod

\* a load that found a slot it could not deserialize, rebuilt and succeeded
C19_MalformedSlotOverwritten ==
    /\ last.op = "load"
    /\ last.slotBefore = MalformedAST
    /\ last.rebuilds = 1
    /\ last.outcome = "loaded"
    /\ files[OutPathOf(last.mod)] # MalformedAST

\* C20 as stated: when the up-to-date check answers no because a dependency
\* of the ledger cannot be read or has changed, and every step of the
\* rebuild succeeds, the load hands the new artifact on and returns no error.
C20_DependencyMissThenRebuildLoads ==
    (/\ last.op = "load"
     /\ ~last.errBefore
     /\ last.upToDate = "false"
     /\ last.vtracked # <<>>
     /\ last.stage = "Done"
     /\ last.serialized) =>
        /\ last.outcome = "loaded"
        /\ last.handed

\* the entries of the candidate's ledger that do not agree with the files
FailingEntries ==
    {i \in 1..Len(Candidate.deps) : ~EntryMatches(probe.FS, Candidate.deps[i])}
\* the number of entries the loop gets to: up to the first failing one
EntriesChecked ==
    IF FailingEntries = {} THEN Len(Candidate.deps)
    ELSE CHOOSE i \in FailingEntries : \A j \in FailingEntries : i <= j
LoopEntered ==
    /\ Validated
    /\ Candidate.kind = "ast"
    /\ Candidate.status = "Valid"
    /\ probe.out.result # "abort"

\* C21: the up-to-date check goes through the ledger in order and answers
\* no at the first entry whose file is unreadable or differs in size or
\* hash; the tracker is told the paths of the entries up to and including
\* that one, in order, and of every entry on a hit; a later entry is not
\* read, so only the entry the check stopped at can be diagnosed as missing.
C21_TrackedUpToFirstFailure ==
    LoopEntered =>
        /\ (probe.out.result = "true") <=> (FailingEntries = {})
        /\ probe.out.tracked
              = [i \in 1..EntriesChecked |-> Candidate.deps[i].Path]
        /\ probe.out.diagnosed
              <=> /\ FailingEntries # {}
                  /\ ~IsBuffer(ReadFile(probe.FS,
                                   Candidate.deps[EntriesChecked].Path))

\* a check that stopped at a changed first entry and did not go on to a
\* second entry whose file is missing
C21_StoppedBeforeMissingEntry ==
    /\ LoopEntered
    /\ Len(Candidate.deps) = 2
    /\ IsBuffer(ReadFile(probe.FS, Candidate.deps[1].Path))
    /\ ~EntryMatches(probe.FS, Candidate.deps[1])
    /\ ReadFile(probe.FS, Candidate.deps[2].Path) = NoFile
    /\ probe.out.result = "false"
    /\ probe.out.tracked = <<Candidate.deps[1].Path>>
    /\ ~probe.out.diagnosed

\* the first step of the rebuild that the interface of m cannot pass, or
\* Compile when it passes the four steps before it
FirstStepRefusing(m) ==
    IF ~HeaderExtracts(m) THEN "ExtractHeader"
    ELSE IF InterfaceOf(m).major # InterfaceFormatMajor THEN "CheckVersion"
    ELSE IF ~InterfaceOf(m).argsOK THEN "ParseArguments"
    ELSE IF InterfaceOf(m).name # m THEN "CheckIdentity"
    ELSE "Compile"

\* C22: a rebuild goes through header extraction, version check, argument
\* parsing, identity check, compile and serialization in this order and
\* ends at the first step that fails: an interface that cannot pass one of
\* the first four steps ends the rebuild at the first such step; the compile
\* step is entered only for an interface that passes all four, the identity
\* check taking the name the flags resolve to; a rebuild that ended before
\* serialization wrote nothing to the slot, and one that ended before the
\* compile step collected and reported nothing.
C22_StepsInOrder ==
    (last.op = "load" /\ last.rebuilds = 1) =>
        /\ (~last.crashed /\ FirstStepRefusing(last.mod) # "Compile")
              => last.stage = FirstStepRefusing(last.mod)
        /\ StageNo(last.stage) <= StageNo(FirstStepRefusing(last.mod))
              \/ FirstStepRefusing(last.mod) = "Compile"
        /\ StageNo(last.stage) >= StageNo("Compile")
              => FirstStepRefusing(last.mod) = "Compile"
        /\ StageNo(last.stage) < StageNo("Compile")
              => last.Deps = <<>> /\ last.tracked = last.vtracked
        /\ StageNo(last.stage) < StageNo("Serialize")
              => ~last.serialized /\ files[OutPathOf(last.mod)] = last.slotBefore
        /\ last.stage # "Done" => last.failed

\* a rebuild of an interface with an unsupported version and another
\* module's name ended at the version check
C22_VersionBeforeIdentity ==
    /\ last.op = "load"
    /\ last.rebuilds = 1
    /\ InterfaceOf(last.mod).major # InterfaceFormatMajor
    /\ InterfaceOf(last.mod).name = OtherModule(last.mod)
    /\ last.stage = "CheckVersion"
    /\ last.why = "unsupported_version"

\* C23: whenever a rebuild serialized the module, the collector had returned
\* its ledger without error before, and the artifact in the slot embeds
\* exactly that ledger, whose last entry is the interface; a rebuild whose
\* collection failed serialized nothing.
C23_LedgerBeforeSerialization ==
    (last.op = "load" /\ last.rebuilds = 1) =>
        /\ last.serialized =>
              /\ StageNo(last.stage) > StageNo("CollectDeps")
              /\ last.Deps # <<>>
              /\ last.Deps[Len(last.Deps)].Path = InPathOf(last.mod)
              /\ files[OutPathOf(last.mod)] = AST("Valid", last.mod, last.Deps)
        /\ StageNo(last.stage) <= StageNo("CollectDeps") => ~last.serialized

\* a rebuild wrote an artifact whose ledger is the collected one, with the
\* entries of a nested artifact in it
C23_WrittenLedgerIsCollected ==
    /\ last.op = "load"
    /\ last.rebuilds = 1
    /\ last.serialized
    /\ Len(last.Deps) > 2
    /\ files[OutPathOf(last.mod)].deps = last.Deps

(***************************************************************************)
(* The rebuild from the end of semantic analysis on: the files as the      *)
(* compile step left them, the dependencies the sub-instance's tracker     *)
(* holds, what the later steps do, and whether the host's engine has seen  *)
(* an error are the inputs.                                                *)
(***************************************************************************)
BuildFaults == {"none", "sema", "silgen", "silerr", "crashSema", "crashSIL",
                "crashSerialize", "crashAfterSerialize"}

\* the slot of A before the rebuild: empty, or an artifact of an earlier build
SlotsBefore == {NoFile, AST("Valid", "A", <<>>)}

BuildFiles(cx, cy, b, slot) ==
    [p \in {HeaderX, HeaderY, OutPathOf("B"), SiblingModule, InPathOf("A"),
            OutPathOf("A")} |->
        IF p = OutPathOf("A") THEN slot ELSE CollectFiles(cx, cy, b)[p]]

InitBuild ==
    /\ HostIdle
    /\ \E cx \in HeaderTexts \cup {NoFile} : \E cy \in {PlainText(0), NoFile} :
       \E b \in NestedArtifacts : \E q \in ReportedLists :
       \E slot \in SlotsBefore : \E fault \in BuildFaults :
       \E hadAnyError \in BOOLEAN :
          probe = [fn |-> "buildSwiftModuleFromSwiftInterface",
                   FS |-> BuildFiles(cx, cy, b, slot), DTDeps |-> q,
                   InPath |-> InPathOf("A"), OutPath |-> OutPathOf("A"),
                   ModuleCachePath |-> CacheDir, fault |-> fault,
                   hadAnyError |-> hadAnyError, done |-> FALSE]

RunBuild ==
    /\ probe.fn = "buildSwiftModuleFromSwiftInterface"
    /\ ~probe.done
    /\ probe' = [probe EXCEPT !.done = TRUE] @@
                 [out |-> Compile(probe.hadAnyError, "A", probe.InPath,
                              probe.OutPath, probe.ModuleCachePath, probe.fault,
                              [FS |-> probe.FS, hadError |-> FALSE,
                               crashed |-> FALSE, deps |-> probe.DTDeps,
                               servedStale |-> FALSE])]
    /\ UNCHANGED <<files, diagErr, LoadMode, nStep, last>>

NextBuild == RunBuild

SpecBuild == InitBuild /\ [][NextBuild]_vars

Built == probe.fn = "buildSwiftModuleFromSwiftInterface" /\ probe.done

\* a path the tracker holds cannot be read, or is a cached module that does
\* not deserialize
ReportedUnusable(i) ==
    \/ probe.FS[probe.DTDeps[i]].kind \notin {"text", "ast"}
    \/ /\ probe.DTDeps[i].ext = SwiftModuleExt
       /\ probe.DTDeps[i].dir = probe.ModuleCachePath
       /\ probe.FS[probe.DTDeps[i]].status # "Valid"
CollectionMustFail == \E i \in 1..Len(probe.DTDeps) : ReportedUnusable(i)

\* C24: a rebuild that fails in semantic analysis, in code generation or in
\* ledger collection (a reported file cannot be read, a reported cached
\* module does not deserialize) does not serialize and leaves every file,
\* the slot included, as it was; each of these four causes ends the rebuild
\* in such a failure.
C24_FailureBeforeSerializationKeepsSlot ==
    Built =>
        /\ StageNo(probe.out.stage) <= StageNo("CollectDeps")
              => /\ probe.out.failed
                 /\ ~probe.out.serialized
                 /\ probe.out.FS = probe.FS
        /\ probe.fault \in {"sema", "silgen"}
              => probe.out.stage = "Compile" /\ probe.out.failed
        /\ (probe.fault \notin {"sema", "silgen", "crashSema"} /\ CollectionMustFail)
              => /\ probe.out.stage = "CollectDeps"
                 /\ probe.out.why = "collectDeps"
                 /\ probe.out.failed
                 /\ probe.out.FS[probe.OutPath] = probe.FS[probe.OutPath]

\* a rebuild failed in collection over a cached module that does not
\* deserialize, after an entry had been collected, and the slot still holds
\* its earlier artifact
C24_CollectionFailedSlotKept ==
    /\ Built
    /\ Len(probe.DTDeps) = 2
    /\ ~ReportedUnusable(1)
    /\ probe.DTDeps[2] = OutPathOf("B")
    /\ probe.FS[OutPathOf("B")] = MalformedAST
    /\ probe.out.why = "collectDeps"
    /\ probe.FS[probe.OutPath] # NoFile
    /\ probe.out.FS[probe.OutPath] = probe.FS[probe.OutPath]

\* C25 as stated, for rebuilds that did not crash: a load that returns
\* invalid_argument from its rebuild has not left in the slot a newly
\* written artifact that is valid and agrees with every file of its ledger.
C25_FailedLoadLeavesNoFreshArtifact ==
    (/\ last.op = "load"
     /\ last.rebuilds = 1
     /\ ~last.crashed
     /\ last.outcome = "invalid_argument")
        => ~(/\ files[OutPathOf(last.mod)] # last.slotBefore
             /\ ServedFresh(files, OutPathOf(last.mod)))

\* C26 as stated: a module the compile step read from a directory that is
\* not the cache directory, though its name begins with the cache
\* directory's, is entered in the ledger as a plain dependency and its own
\* ledger is not copied: a file named only there is not in the result.
C26_SiblingDirectoryNotSpliced ==
    (/\ Collected
     /\ ~probe.out.error
     /\ Reported(SiblingModule)
     /\ ~Reported(HeaderY)
     /\ ~Reported(OutPathOf("B")))
        => /\ InLedger(SiblingModule)
           /\ ~InLedger(HeaderY)

(***************************************************************************)
(* A chain of three interfaces, A importing B importing C, in a host whose *)
(* files change only by what the loads write.                              *)
(***************************************************************************)
ChainModules == {"A", "B", "C"}

ChainImportsOf(m) ==
    IF m = "A" THEN <<ImportModule("B"), ImportHeader(HeaderX)>>
    ELSE IF m = "B" THEN <<ImportModule("C"), ImportHeader(HeaderX)>>
    ELSE <<ImportHeader(HeaderY)>>

ChainInterface(m) ==
    Text(10 + ModuleCode(m), 0, TRUE, 1, 0, TRUE, TRUE, m, ChainImportsOf(m))

ChainPaths ==
    {HeaderX, HeaderY}
        \cup {InPathOf(m) : m \in ChainModules}
        \cup {ModPathOf(m) : m \in ChainModules}
        \cup {OutPathOf(m) : m \in ChainModules}

\* y.h as cy, the module next to C's interface as adjC, an empty cache
ChainFiles(cy, adjC) ==
    [p \in ChainPaths |->
        IF p = HeaderX THEN PlainText(0)
        ELSE IF p = HeaderY THEN cy
        ELSE IF p.ext = SwiftInterfaceExt THEN ChainInterface(p.stem[1])
        ELSE IF p = ModPathOf("C") THEN adjC
        ELSE NoFile]

\* in one request at most one compile step of the chain misbehaves
ChainFaultChoices ==
    {f \in [ChainModules -> {"none", "sema", "crashAfterSerialize"}] :
        \A m \in ChainModules : \A n \in ChainModules :
           (f[m] # "none" /\ f[n] # "none") => m = n}

InitChain ==
    /\ \E cy \in {PlainText(0), PlainText(1), NoFile} :
       \E adjC \in {NoFile, AST("Valid", "C", <<>>)} :
          files = ChainFiles(cy, adjC)
    /\ diagErr = FALSE
    /\ LoadMode \in LoadModes
    /\ nStep = 0
    /\ last = NoStep
    /\ probe = NoProbe

NextChain ==
    \/ \E m \in ChainModules : \E faults \in ChainFaultChoices : Load(m, faults)
    \/ \E mode \in LoadModes : Restart(mode)

SpecChain == InitChain /\ [][NextChain]_vars

\* the paths of the ledger of the artifact at p
LedgerPaths(p) == {files[p].deps[i].Path : i \in 1..Len(files[p].deps)}
HoldsArtifact(p) == files[p].kind = "ast" /\ files[p].status = "Valid"

RoundTrip ==
    swiftModuleIsUpToDate(probe.out.FS, "A", probe.OutPath, TRUE).result

\* the collector copies the ledger of the module the tracker holds at i
LedgerCopied(i) ==
    /\ probe.DTDeps[i].ext = SwiftModuleExt
    /\ startswith(PathStr(probe.DTDeps[i]), probe.ModuleCachePath)

\* C28 as stated: right after a rebuild that reports success the up-to-date
\* check accepts the artifact it wrote, whatever the compile step reported.
C28_BuildThenValidate ==
    (Built /\ ~probe.out.failed) => RoundTrip = "true"

\* C28 amended: right after a rebuild that reports success the up-to-date
\* check accepts the artifact it wrote, provided every module whose ledger
\* the collector copied agreed with the files when it was copied.
C28_BuildThenValidateFreshNested ==
    (/\ Built
     /\ ~probe.out.failed
     /\ \A i \in 1..Len(probe.DTDeps) :
           LedgerCopied(i) => ServedFresh(probe.FS, probe.DTDeps[i]))
        => RoundTrip = "true"

\* a rebuild that copied two entries of a nested module's ledger reported
\* success and the up-to-date check accepted its artifact
C28_CopiedEntriesValidate ==
    /\ Built
    /\ ~probe.out.failed
    /\ Reported(OutPathOf("B"))
    /\ ~Reported(HeaderX)
    /\ ~Reported(HeaderY)
    /\ Len(probe.FS[OutPathOf("B")].deps) = 2
    /\ Len(probe.out.Deps) = 4
    /\ RoundTrip = "true"

(***************************************************************************)
(* Load requests as calls: the host calls openModuleFiles and the call     *)
(* returns.  The call runs on the host's thread, the rebuild on a thread   *)
(* the call waits for.                                                     *)
(***************************************************************************)
LoadPending == probe.fn = "openModuleFiles" /\ ~probe.done
LoadEnded == probe.fn = "openModuleFiles" /\ probe.done /\ last.op = "load"

InitRequest == Init

\* the host calls the loader for module m and the body of the call runs
Request(m, faults) ==
    /\ nStep < MaxSteps
    /\ HostAlive
    /\ ~LoadPending
    /\ LET r == openModuleFiles(files, diagErr, m,
                    [mode |-> LoadMode, asserts |-> TRUE, faults |-> faults])
       IN  /\ files' = r.FS
           /\ diagErr' = r.hadAnyError
           /\ last' = [op |-> "load", mod |-> m, outcome |-> r.outcome,
                       validated |-> r.validated, rebuilds |-> r.rebuilds,
                       handed |-> r.handed, failed |-> r.build.failed,
                       crashed |-> r.build.crashed, Deps |-> r.build.Deps,
                       vtracked |-> r.vtracked,
                       slotBefore |-> files[OutPathOf(m)]]
    /\ probe' = [fn |-> "openModuleFiles", mod |-> m, done |-> FALSE]
    /\ UNCHANGED <<LoadMode, nStep>>

\* the call returns to the host
Finish ==
    /\ LoadPending
    /\ nStep' = nStep + 1
    /\ probe' = [probe EXCEPT !.done = TRUE]
    /\ UNCHANGED <<files, diagErr, LoadMode, last>>

\* the host process is replaced between two calls
RestartIdle(mode) == ~LoadPending /\ Restart(mode)

NextRequest ==
    \/ \E m \in Modules : \E faults \in FaultChoices : Request(m, faults)
    \/ Finish
    \/ \E mode \in LoadModes : RestartIdle(mode)

SpecRequest == InitRequest /\ [][NextRequest]_vars /\ WF_vars(Finish)

\* the three ways a load ends
EndedHanded == last.handed /\ last.outcome \in {"loaded", "no_such_file"}
EndedDeferred ==
    ~last.validated /\ last.outcome \in {"no_such_file", "not_supported"}
EndedError == last.outcome = "invalid_argument"
WaysEnded ==
    {w \in {"handed", "deferred", "error"} :
        \/ w = "handed" /\ EndedHanded
        \/ w = "deferred" /\ EndedDeferred
        \/ w = "error" /\ EndedError}

\* the validator went over the slot's ledger at most once
OnePassOverLedger ==
    IF last.slotBefore.kind = "ast" /\ last.slotBefore.status = "Valid"
    THEN Len(last.vtracked) <= Len(last.slotBefore.deps)
    ELSE last.vtracked = <<>>

\* C29: every call of the loader returns, and when it has returned it has
\* ended in exactly one of the three ways (artifact handed to the serialized
\* loader, deferred, error), after at most one rebuild, whether that failed
\* or not, one pass of the up-to-date check over the slot's ledger and a
\* collected ledger of at most one entry for each file.
C29_EveryLoadEnds ==
    /\ [](LoadEnded =>
            /\ Cardinality(WaysEnded) = 1
            /\ last.rebuilds <= 1
            /\ last.failed => last.rebuilds = 1 /\ EndedError
            /\ OnePassOverLedger
            /\ Len(last.Deps) <= Cardinality(DOMAIN files))
    /\ (LoadPending ~> LoadEnded)

\* a call returned an error after one rebuild that crashed
C29_CrashedOnceThenError ==
    /\ LoadEnded
    /\ last.crashed
    /\ last.rebuilds = 1
    /\ EndedError

====
